---- MODULE Spec2Model ----
(***************************************************************************)
(* Story element store of rpg_backend (src/api/rpg_stories.py): one JSON   *)
(* file, story_elements.json, read and rewritten by request workers under  *)
(* fcntl.flock advisory locks.                                             *)
(*                                                                         *)
(* The file is modelled as a sequence of tokens (the bytes json.dump       *)
(* writes, grouped), each worker as a program counter over the system      *)
(* calls of the function it runs: os.path.exists, open, flock, read,       *)
(* write (the flush of Python's file buffer), ftruncate, close.            *)
(***************************************************************************)
EXTENDS Integers, Sequences, FiniteSets, TLC

(***************************************************************************)
(* Bounds.  The code's catalog has 6 categories of 8 entries and primes    *)
(* 15 love and 8 skip votes; the concurrent specifications run scaled-down *)
(* catalogs, the sequential one (SpecSeed) the catalog's real shape.       *)
(***************************************************************************)
NumWorkers == 2
\* Spec: workers boot on a fresh deployment (no story_elements.json)
BootInits == 2
BootReads == 1
BootVotes == 1
BootCategories == 2
BootEntries == 1
BootLove == 10
BootSkip == 0
\* SpecRun: workers serve requests on a store initialized at boot
RunInits == 1
RunReads == 1
RunVotes == 2
RunCategories == 2
RunEntries == 1
RunLove == 1
RunSkip == 1
\* SpecHttp: workers serve HTTP requests on a store initialized at boot
HttpReads == 1
HttpVotes == 2
HttpCategories == 2
HttpEntries == 1
HttpLove == 1
HttpSkip == 0
\* SpecLive: the workers of SpecRun under fair scheduling
LiveInits == 1
LiveReads == 1
LiveVotes == 1
LiveCategories == 1
LiveEntries == 1
LiveLove == 1
LiveSkip == 0
\* SpecSeed: one worker on a fresh deployment, the catalog's real shape
SeedInits == 2
SeedReads == 1
SeedLove == 1
SeedSkip == 0

\* story_data_initial: 6 categories ...
\* a fresh deployment primed as the program primes it, a catalog of 2 x 1
TallyInits == 1
TallyReads == 1
TallyVotes == 1
TallyCategories == 2
TallyEntries == 1

\* the statistics database: requests per kind, and who sends them
StatsRecords == 2
StatsResets == 2
StatsGets == 1

\* the rpg_users table: registration and login requests
UsersPosts == 2
UsersLogins == 1

\* the in-memory UserModel: create calls and registrations
ModelCreates == 2
ModelPosts == 2

\* the key_bindings table: saves, reads and seconds that pass
KeyPosts == 2
KeyGets == 1
KeyTicks == 1

SEED_CATEGORIES == 6
\* ... of 8 entries each
SEED_ENTRIES == 8
\* the numbers of love and of skip votes initStoryElements primes
PRIME_LOVE == 15
PRIME_SKIP == 8
\* get_statistics reports at most this many history rows
HISTORY_LIMIT == 100

VARIABLES
    cfg,       \* the build and the run: catalog shape, priming counts, workers,
               \* and how many calls of each kind the run makes
    exists,    \* os.path.exists(STORY_FILE)
    file,      \* the bytes of STORY_FILE
    lock,      \* per worker: the flock its open file description holds
    pc,        \* per worker: where it is in the function it runs
    call,      \* per worker: the operation it runs and its arguments
    elements,  \* per worker: the in-memory list (story_data / data / elements)
    buf,       \* per worker: bytes written to f and not yet flushed
    ret,       \* per worker: what its last operation returned
    calls,     \* operations started so far, per kind
    base,      \* history: the collection the first such call persisted
    applied,   \* history: per record and field, increments that returned
    peak,      \* history: per record and field, the highest stored counter
    booted,    \* history: an initStoryElements() has written the store and returned
    torn,      \* history, per worker: json.load raised in the call it runs
    route,     \* per worker: the HTTP request whose handler it runs
    resp,      \* per worker: the HTTP response it sent last
    statsdb,   \* rpg_statistics.db: its tables and rows, and who writes it
    statsw,    \* per worker process: its place in the statistics code
    usersdb,   \* the rpg_users table
    usersw,    \* per worker: its place in RPGDataAPI / RPGLoginAPI
    user_model,\* src/rpg.py: the UserModel instance and the last response
    keydb      \* the key_bindings table, the clock and the last response

\* the story element store and its HTTP resources
storyvars == <<cfg, exists, file, lock, pc, call, elements, buf, ret, calls,
               base, applied, peak, booted, torn, route, resp>>

\* the SQLite-backed and in-memory parts of the backend
appvars == <<statsdb, statsw, usersdb, usersw, user_model, keydb>>

vars == <<cfg, exists, file, lock, pc, call, elements, buf, ret, calls,
          base, applied, peak, booted, torn, route, resp,
          statsdb, statsw, usersdb, usersw, user_model, keydb>>

Fields == {"love", "skip"}

Workers == 1..NumWorkers

NumRecords == cfg.ncat * cfg.nper

\* ids a request may carry: every valid id and one on each side
Ids == -1..NumRecords

(***************************************************************************)
(* The seed catalog and the build loop of initStoryElements.               *)
(***************************************************************************)

\* story_data_initial: category c holds the texts <<c, 1>> .. <<c, nper>>;
\* a text is named by its place in the catalog.
CategoryEntries(c) == [e \in 1..cfg.nper |-> e]

\* mutant: ids counted from 1
StoryElementOneBased(item_id, category, element_text) ==
    [id |-> item_id + 1, category |-> category, element |-> element_text,
     love |-> 0, skip |-> 0]

StoryElement(item_id, category, element_text) ==
    [id |-> item_id, category |-> category, element |-> element_text,
     love |-> 0, skip |-> 0]

\* mutant: item_id is never advanced
NextItemIdStuck(item_id) == item_id

\* line 127
NextItemId(item_id) == item_id + 1

\* the nested loops of lines 116-127: categories in order, their entries in
\* order, item_id counting up from 0
RECURSIVE BuildFrom(_, _, _, _)
BuildFrom(c, e, item_id, story_data) ==
    IF c > cfg.ncat THEN story_data
    ELSE IF e > cfg.nper THEN BuildFrom(c + 1, 1, item_id, story_data)
    ELSE BuildFrom(c, e + 1, NextItemId(item_id),
                   Append(story_data,
                          StoryElement(item_id, c, CategoryEntries(c)[e])))

BuildStoryData == BuildFrom(1, 1, 0, <<>>)

\* mutant: the increment touches both counters of the record
BumpBothCounters(data, id, field) ==
    [data EXCEPT ![id + 1] = [@ EXCEPT !.love = @ + 1, !.skip = @ + 1]]

\* elements[id][field] += 1 (Python's list index id is position id + 1)
Bump(data, id, field) ==
    [data EXCEPT ![id + 1] = [@ EXCEPT ![field] = @ + 1]]

\* mutant: the priming loop runs one time fewer
RECURSIVE PrimeSetOneShort(_, _, _)
PrimeSetOneShort(S, k, field) ==
    IF k <= 1 THEN S
    ELSE PrimeSetOneShort({Bump(d, id, field) :
                              d \in S, id \in 0..(NumRecords - 1)},
                          k - 1, field)

\* k times: id = random.randint(0, len(story_data) - 1); story_data[id][field] += 1
RECURSIVE PrimeSet(_, _, _)
PrimeSet(S, k, field) ==
    IF k = 0 THEN S
    ELSE PrimeSet({Bump(d, id, field) : d \in S, id \in 0..(NumRecords - 1)},
                  k - 1, field)

\* every story_data the priming loops of lines 130-135 can produce
PrimedStoryData ==
    PrimeSet(PrimeSet({BuildStoryData}, cfg.love, "love"), cfg.skip, "skip")

(***************************************************************************)
(* json.dump / json.load over tokens.  A record is the token of its fixed  *)
(* text (id, category, element) followed by the decimal digits of love, a  *)
(* separator, the digits of skip and a closing token.                      *)
(***************************************************************************)
Tok(t, a, b, c) == [t |-> t, a |-> a, b |-> b, c |-> c]

\* mutant: only the last decimal digit of the number is written
DigitsLastOnly(n) == <<Tok("dig", n % 10, 0, 0)>>

RECURSIVE Digits(_)
Digits(n) == IF n < 10 THEN <<Tok("dig", n, 0, 0)>>
             ELSE Append(Digits(n \div 10), Tok("dig", n % 10, 0, 0))

DumpRecord(r) ==
    <<Tok("hdr", r.id, r.category, r.element)>> \o Digits(r.love)
        \o <<Tok("sep", 0, 0, 0)>> \o Digits(r.skip) \o <<Tok("end", 0, 0, 0)>>

RECURSIVE DumpRecords(_)
DumpRecords(data) ==
    IF data = <<>> THEN <<>>
    ELSE DumpRecord(Head(data)) \o DumpRecords(Tail(data))

\* json.dump(data, f, indent=2)
Dump(data) ==
    <<Tok("open", 0, 0, 0)>> \o DumpRecords(data) \o <<Tok("close", 0, 0, 0)>>

RECURSIVE ParseDigits(_, _, _)
ParseDigits(s, i, acc) ==
    IF i <= Len(s) /\ s[i].t = "dig"
    THEN ParseDigits(s, i + 1, acc * 10 + s[i].a)
    ELSE [val |-> acc, next |-> i]

\* a JSON integer: 0, or a nonzero digit and the digits after it
ParseNumber(s, i) ==
    IF i > Len(s) \/ s[i].t # "dig" THEN [ok |-> FALSE, val |-> 0, next |-> i]
    ELSE IF s[i].a = 0 THEN [ok |-> TRUE, val |-> 0, next |-> i + 1]
    ELSE LET r == ParseDigits(s, i, 0)
         IN  [ok |-> TRUE, val |-> r.val, next |-> r.next]

NoRecord == [id |-> 0, category |-> 0, element |-> 0, love |-> 0, skip |-> 0]

ParseRecord(s, i) ==
    LET bad == [ok |-> FALSE, rec |-> NoRecord, next |-> i]
    IN  IF i > Len(s) \/ s[i].t # "hdr" THEN bad
        ELSE LET lv == ParseNumber(s, i + 1)
             IN  IF ~lv.ok \/ lv.next > Len(s) \/ s[lv.next].t # "sep" THEN bad
                 ELSE LET sk == ParseNumber(s, lv.next + 1)
                      IN  IF ~sk.ok \/ sk.next > Len(s) \/ s[sk.next].t # "end"
                          THEN bad
                          ELSE [ok |-> TRUE,
                                rec |-> [id |-> s[i].a, category |-> s[i].b,
                                         element |-> s[i].c,
                                         love |-> lv.val, skip |-> sk.val],
                                next |-> sk.next + 1]

RECURSIVE ParseRecords(_, _, _)
ParseRecords(s, i, acc) ==
    IF i > Len(s) THEN [ok |-> FALSE, data |-> <<>>]
    ELSE IF s[i].t = "close"
         THEN \* anything after the closing bracket is "Extra data"
              [ok |-> i = Len(s), data |-> IF i = Len(s) THEN acc ELSE <<>>]
         ELSE LET r == ParseRecord(s, i)
              IN  IF r.ok THEN ParseRecords(s, r.next, Append(acc, r.rec))
                  ELSE [ok |-> FALSE, data |-> <<>>]

\* json.load(f): ok = FALSE stands for the exception it raises
Load(s) ==
    IF Len(s) = 0 \/ s[1].t # "open" THEN [ok |-> FALSE, data |-> <<>>]
    ELSE ParseRecords(s, 2, <<>>)

(***************************************************************************)
(* The file system calls.                                                  *)
(***************************************************************************)

\* write(fd, bytes) at offset 0: overwrites, and keeps what lies beyond
WriteAtStart(old, bytes) ==
    bytes \o SubSeq(old, Len(bytes) + 1, Len(old))

\* ftruncate(fd, n): cuts, or extends with NUL bytes
FTruncate(old, n) ==
    IF n <= Len(old) THEN SubSeq(old, 1, n)
    ELSE old \o [i \in 1..(n - Len(old)) |-> Tok("nul", 0, 0, 0)]

\* mutant: the exclusive lock is granted at once, whoever holds a lock
CanLockExUnguarded(w) == TRUE

\* flock(LOCK_EX) is granted when no other open file description holds a lock
CanLockEx(w) == \A v \in Workers \ {w} : lock[v] = "UN"

\* mutant: the shared lock is granted at once, whoever holds a lock
CanLockShUnguarded(w) == TRUE

\* flock(LOCK_SH) is granted when no other one holds the exclusive lock
CanLockSh(w) == \A v \in Workers \ {w} : lock[v] # "EX"

(***************************************************************************)
(* The state after construction.                                           *)
(***************************************************************************)
NoCall == [op |-> "none", id |-> 0, field |-> "none", found |-> FALSE,
           boot |-> FALSE]

\* what a function call gives back: None, a list, one record, an int, or an
\* exception that leaves the function
None == [k |-> "none", v |-> <<>>, n |-> 0]
Raised == [k |-> "raise", v |-> <<>>, n |-> 0]
ListOf(data) == [k |-> "list", v |-> data, n |-> 0]
RecordOf(r) == [k |-> "rec", v |-> <<r>>, n |-> 0]
IntOf(n) == [k |-> "int", v |-> <<>>, n |-> n]

\* no request being served; name is the resource class's route once one is
NoRoute == [name |-> "none", id |-> 0, voted |-> None]

\* no response sent yet
NoResp == [status |-> 0, body |-> [json |-> "none", v |-> <<>>], of |-> NoRoute]

NoVotes == [p \in 1..NumRecords |-> [love |-> 0, skip |-> 0]]

\* the counters a file holds above the recorded peak raise the peak
PeakOf(old, bytes) ==
    LET l == Load(bytes)
    IN  [p \in 1..NumRecords |->
            IF l.ok /\ p <= Len(l.data)
            THEN [love |-> IF l.data[p].love > old[p].love
                           THEN l.data[p].love ELSE old[p].love,
                  skip |-> IF l.data[p].skip > old[p].skip
                           THEN l.data[p].skip ELSE old[p].skip]
            ELSE old[p]]

(***************************************************************************)
(* The parts of the backend beside the story store, before any request.    *)
(***************************************************************************)
NoStats == [chill |-> 0, action |-> 0, total |-> 0]

NoStatsResp ==
    [status |-> 0, error |-> "", stats |-> NoStats, history |-> <<>>,
     fresh |-> FALSE]

\* a process that has not run the initialization yet
NoStatsWorker ==
    [pc |-> "boot", op |-> "none", mode |-> "", user_id |-> "",
     n |-> 0, statistics |-> <<>>, history |-> <<>>,
     stats |-> NoStats, at |-> 0, seen |-> 0, resp |-> NoStatsResp]

StatsOff ==
    /\ statsdb = [unique |-> TRUE, tables |-> FALSE, statistics |-> <<>>,
                  history |-> <<>>, owner |-> 0, version |-> 0,
                  calls |-> [record |-> 0, reset |-> 0, get |-> 0]]
    /\ statsw = [w \in Workers |-> NoStatsWorker]

\* werkzeug's generate_password_hash: a salt and the digest of salt and
\* password
generate_password_hash(password) ==
    [salt |-> "salt", digest |-> <<"salt", password>>]

\* werkzeug's check_password_hash
check_password_hash(pwhash, password) ==
    pwhash.digest = <<pwhash.salt, password>>

\* a row of rpg_users
RPGUser(id, first_name, last_name, github_id, password) ==
    [id |-> id, first_name |-> first_name, last_name |-> last_name,
     github_id |-> github_id,
     password |-> generate_password_hash(password)]

\* the table as initRPGUsers leaves it
DefaultUsers ==
    <<RPGUser(1, "John", "Doe", "johndoe", "password123"),
      RPGUser(2, "Jane", "Smith", "janesmith", "password456")>>

NoUser == [id |-> 0, FirstName |-> "", LastName |-> "", GitHubID |-> ""]

NoUserData ==
    [FirstName |-> "", LastName |-> "", GitHubID |-> "", Password |-> ""]

NoUsersResp == [status |-> 0, message |-> "", user |-> NoUser]

NoUsersWorker ==
    [pc |-> "idle", op |-> "none", data |-> NoUserData, had |-> FALSE,
     resp |-> NoUsersResp]

UsersOff ==
    /\ usersdb = [rows |-> DefaultUsers, calls |-> [post |-> 0, login |-> 0]]
    /\ usersw = [w \in Workers |-> NoUsersWorker]

\* UserModel.__init__
UserModel ==
    [users |-> <<[id |-> 1, FirstName |-> "John", LastName |-> "Doe",
                  GitHubID |-> "johndoe"],
                 [id |-> 2, FirstName |-> "Jane", LastName |-> "Smith",
                  GitHubID |-> "janesmith"]>>,
     next_id |-> 3]

NoModelCall ==
    [op |-> "none",
     data |-> [FirstName |-> "", LastName |-> "", GitHubID |-> ""],
     created |-> FALSE, user |-> NoUser, status |-> 0, message |-> ""]

UserModelOff ==
    user_model = [model |-> UserModel, calls |-> [create |-> 0, post |-> 0],
                  last |-> NoModelCall]

NoBinding ==
    [id |-> 0, user_github_id |-> "", game_mode |-> "", move_up_key |-> "",
     jump_key |-> "", created_at |-> 0]

NoKeysCall ==
    [op |-> "none", userGithubId |-> "", gameMode |-> "", status |-> 0,
     message |-> "", binding |-> NoBinding]

\* the table as init_rpg_db creates it
KeysOff ==
    keydb = [rows |-> <<>>, now |-> 0,
             calls |-> [post |-> 0, get |-> 0, tick |-> 0],
             last |-> NoKeysCall]

\* the other parts of the backend take no request
AppsIdle ==
    /\ StatsOff
    /\ UsersOff
    /\ UserModelOff
    /\ KeysOff

StoryWorkersIdle ==
    /\ lock = [w \in Workers |-> "UN"]
    /\ pc = [w \in Workers |-> "idle"]
    /\ call = [w \in Workers |-> NoCall]
    /\ elements = [w \in Workers |-> <<>>]
    /\ buf = [w \in Workers |-> <<>>]
    /\ ret = [w \in Workers |-> None]
    /\ calls = [init |-> 0, read |-> 0, vote |-> 0]
    /\ applied = NoVotes
    /\ torn = [w \in Workers |-> FALSE]
    /\ route = [w \in Workers |-> NoRoute]
    /\ resp = [w \in Workers |-> NoResp]

InitWorkers == StoryWorkersIdle /\ AppsIdle

\* the story store takes no request
StoryOff ==
    /\ cfg = [ncat |-> 0, nper |-> 0, love |-> 0, skip |-> 0,
              workers |-> NumWorkers, inits |-> 0, reads |-> 0, votes |-> 0]
    /\ exists = FALSE
    /\ file = <<>>
    /\ base = <<>>
    /\ peak = NoVotes
    /\ booted = FALSE
    /\ StoryWorkersIdle

\* a fresh deployment: no story_elements.json yet
Init ==
    /\ cfg = [ncat |-> BootCategories, nper |-> BootEntries,
              love |-> BootLove, skip |-> BootSkip, workers |-> NumWorkers,
              inits |-> BootInits, reads |-> BootReads, votes |-> BootVotes]
    /\ exists = FALSE
    /\ file = <<>>
    /\ base = <<>>
    /\ peak = NoVotes
    /\ booted = FALSE
    /\ InitWorkers

\* a deployment whose initStoryElements() ran at boot, alone
InitRun ==
    /\ cfg = [ncat |-> RunCategories, nper |-> RunEntries,
              love |-> RunLove, skip |-> RunSkip, workers |-> NumWorkers,
              inits |-> RunInits, reads |-> RunReads, votes |-> RunVotes]
    /\ exists = TRUE
    /\ base \in PrimedStoryData
    /\ file = Dump(base)
    /\ peak = PeakOf(NoVotes, file)
    /\ booted = TRUE
    /\ InitWorkers

\* the deployment of InitRun, its workers behind the HTTP resources
InitHttp ==
    /\ cfg = [ncat |-> HttpCategories, nper |-> HttpEntries,
              love |-> HttpLove, skip |-> HttpSkip, workers |-> NumWorkers,
              inits |-> 0, reads |-> HttpReads, votes |-> HttpVotes]
    /\ exists = TRUE
    /\ base \in PrimedStoryData
    /\ file = Dump(base)
    /\ peak = PeakOf(NoVotes, file)
    /\ booted = TRUE
    /\ InitWorkers

\* the deployment of InitRun, for the runs checked under fairness
InitLive ==
    /\ cfg = [ncat |-> LiveCategories, nper |-> LiveEntries,
              love |-> LiveLove, skip |-> LiveSkip, workers |-> NumWorkers,
              inits |-> LiveInits, reads |-> LiveReads, votes |-> LiveVotes]
    /\ exists = TRUE
    /\ base \in PrimedStoryData
    /\ file = Dump(base)
    /\ peak = PeakOf(NoVotes, file)
    /\ booted = TRUE
    /\ InitWorkers

\* a fresh deployment that one initStoryElements() call primes with the
\* program's 15 love and 8 skip votes, while the workers serve requests
InitTally ==
    /\ cfg = [ncat |-> TallyCategories, nper |-> TallyEntries,
              love |-> PRIME_LOVE, skip |-> PRIME_SKIP, workers |-> NumWorkers,
              inits |-> TallyInits, reads |-> TallyReads,
              votes |-> TallyVotes]
    /\ exists = FALSE
    /\ file = <<>>
    /\ base = <<>>
    /\ peak = NoVotes
    /\ booted = FALSE
    /\ InitWorkers

\* one worker, a fresh deployment, the catalog of 6 x 8
InitSeed ==
    /\ cfg = [ncat |-> SEED_CATEGORIES, nper |-> SEED_ENTRIES,
              love |-> SeedLove, skip |-> SeedSkip, workers |-> 1,
              inits |-> SeedInits, reads |-> SeedReads, votes |-> 0]
    /\ exists = FALSE
    /\ file = <<>>
    /\ base = <<>>
    /\ peak = NoVotes
    /\ booted = FALSE
    /\ InitWorkers

(***************************************************************************)
(* A worker takes a request and calls one function of the store.           *)
(***************************************************************************)
\* a worker of this run, between two calls
Free(w) == w <= cfg.workers /\ pc[w] \in {"idle", "done"}

Begin(w, op, id, field, at) ==
    /\ pc' = [pc EXCEPT ![w] = at]
    /\ call' = [call EXCEPT ![w] =
                   [op |-> op, id |-> id, field |-> field,
                    \* history: the file existed, and the store had been
                    \* written by initStoryElements, when the call began
                    found |-> exists, boot |-> booted]]
    /\ ret' = [ret EXCEPT ![w] = None]
    /\ torn' = [torn EXCEPT ![w] = FALSE]
    /\ UNCHANGED elements
    /\ UNCHANGED appvars
    /\ UNCHANGED <<cfg, exists, file, lock, buf, base, applied, peak, booted>>

\* initStoryElements()
CallInit(w) ==
    /\ Free(w) /\ calls.init < cfg.inits
    /\ calls' = [calls EXCEPT !.init = @ + 1]
    /\ Begin(w, "init", 0, "none", "i_check")
    /\ UNCHANGED <<route, resp>>

\* getStoryElements()
CallList(w) ==
    /\ Free(w) /\ calls.read < cfg.reads
    /\ calls' = [calls EXCEPT !.read = @ + 1]
    /\ Begin(w, "list", 0, "none", "r_check")
    /\ UNCHANGED <<route, resp>>

\* getStoryElement(id)
CallGet(w) ==
    /\ Free(w) /\ calls.read < cfg.reads
    /\ calls' = [calls EXCEPT !.read = @ + 1]
    /\ \E id \in Ids : Begin(w, "get", id, "none", "r_check")
    /\ UNCHANGED <<route, resp>>

\* countStoryElements()
CallCount(w) ==
    /\ Free(w) /\ calls.read < cfg.reads
    /\ calls' = [calls EXCEPT !.read = @ + 1]
    /\ Begin(w, "count", 0, "none", "r_check")
    /\ UNCHANGED <<route, resp>>

\* addStoryLove(id) / addStorySkip(id)
CallVote(w) ==
    /\ Free(w) /\ calls.vote < cfg.votes
    /\ calls' = [calls EXCEPT !.vote = @ + 1]
    /\ \E id \in Ids, field \in Fields : Begin(w, "vote", id, field, "v_open")
    /\ UNCHANGED <<route, resp>>

\* the function returns r
Return(w, r) ==
    /\ pc' = [pc EXCEPT ![w] = "done"]
    /\ ret' = [ret EXCEPT ![w] = r]
    /\ elements' = [elements EXCEPT ![w] = <<>>]

(***************************************************************************)
(* initStoryElements and _write_story_file.                                *)
(***************************************************************************)

\* mutant: the existence check is skipped, every call builds and writes
InitCheckAlways(w) ==
    /\ pc[w] = "i_check"
    /\ \E d \in PrimedStoryData : elements' = [elements EXCEPT ![w] = d]
    /\ pc' = [pc EXCEPT ![w] = "w_open"]
    /\ UNCHANGED <<torn, route, resp>>
    /\ UNCHANGED appvars
    /\ UNCHANGED <<cfg, exists, file, lock, call, buf, ret, calls, base,
                   applied, peak, booted>>

\* lines 113-135: return if the file exists, else build and prime story_data
InitCheck(w) ==
    /\ pc[w] = "i_check"
    /\ IF exists
       THEN Return(w, None)
       ELSE /\ \E d \in PrimedStoryData :
                   elements' = [elements EXCEPT ![w] = d]
            /\ pc' = [pc EXCEPT ![w] = "w_open"]
            /\ UNCHANGED ret
    /\ UNCHANGED <<torn, route, resp>>
    /\ UNCHANGED appvars
    /\ UNCHANGED <<cfg, exists, file, lock, call, buf, calls, base, applied,
                   peak, booted>>

\* line 100: open(STORY_FILE, 'w') creates the file or cuts it to nothing,
\* whoever holds a lock on it
WriteOpen(w) ==
    /\ pc[w] = "w_open"
    /\ exists' = TRUE
    /\ file' = <<>>
    /\ pc' = [pc EXCEPT ![w] = "w_lock"]
    /\ UNCHANGED <<torn, route, resp>>
    /\ UNCHANGED appvars
    /\ UNCHANGED <<cfg, lock, call, elements, buf, ret, calls, base, applied,
                   peak, booted>>

\* lines 101-102: flock(LOCK_EX), then json.dump into f's buffer (the whole
\* payload, under 7 KB, stays in the 8 KB buffer)
WriteLock(w) ==
    /\ pc[w] = "w_lock"
    /\ CanLockEx(w)
    /\ lock' = [lock EXCEPT ![w] = "EX"]
    /\ buf' = [buf EXCEPT ![w] = Dump(elements[w])]
    /\ pc' = [pc EXCEPT ![w] = "w_unlock"]
    /\ UNCHANGED <<torn, route, resp>>
    /\ UNCHANGED appvars
    /\ UNCHANGED <<cfg, exists, file, call, elements, ret, calls, base,
                   applied, peak, booted>>

\* line 103: flock(LOCK_UN), the buffer still unwritten
WriteUnlock(w) ==
    /\ pc[w] = "w_unlock"
    /\ lock' = [lock EXCEPT ![w] = "UN"]
    /\ pc' = [pc EXCEPT ![w] = "w_close"]
    /\ UNCHANGED <<torn, route, resp>>
    /\ UNCHANGED appvars
    /\ UNCHANGED <<cfg, exists, file, call, elements, buf, ret, calls, base,
                   applied, peak, booted>>

\* the end of the with block: close(f) flushes the buffer at offset 0
WriteClose(w) ==
    /\ pc[w] = "w_close"
    /\ file' = WriteAtStart(file, buf[w])
    /\ buf' = [buf EXCEPT ![w] = <<>>]
    /\ peak' = PeakOf(peak, file')
    /\ booted' = TRUE
    /\ base' = IF booted THEN base ELSE elements[w]
    /\ Return(w, None)
    /\ UNCHANGED <<torn, route, resp>>
    /\ UNCHANGED appvars
    /\ UNCHANGED <<cfg, exists, lock, call, calls, applied>>

(***************************************************************************)
(* _read_story_file, and getStoryElements / getStoryElement over it.       *)
(***************************************************************************)

\* mutant: getStoryElement tests only id < len(elements), so that a negative
\* id indexes from the end of the list, or raises IndexError on an empty one
ReadResultNoLowerBound(w, data) ==
    IF call[w].op = "list" THEN ListOf(data)
    ELSE IF call[w].op = "count" THEN IntOf(Len(data))
    ELSE IF call[w].id < Len(data)
         THEN IF call[w].id >= 0 THEN RecordOf(data[call[w].id + 1])
              ELSE IF Len(data) + call[w].id >= 0
                   THEN RecordOf(data[Len(data) + call[w].id + 1])
                   ELSE Raised
         ELSE None

\* lines 143-152 and 222-225: what the caller makes of the list read
ReadResult(w, data) ==
    IF call[w].op = "list" THEN ListOf(data)
    ELSE IF call[w].op = "count" THEN IntOf(Len(data))
    ELSE IF 0 <= call[w].id /\ call[w].id < Len(data)
         THEN RecordOf(data[call[w].id + 1])
         ELSE None

\* lines 86-88: no file, an empty list; else open(STORY_FILE, 'r')
ReadCheck(w) ==
    /\ pc[w] = "r_check"
    /\ IF exists
       THEN /\ pc' = [pc EXCEPT ![w] = "r_lock"]
            /\ UNCHANGED <<ret, elements>>
       ELSE Return(w, ReadResult(w, <<>>))
    /\ UNCHANGED <<torn, route, resp>>
    /\ UNCHANGED appvars
    /\ UNCHANGED <<cfg, exists, file, lock, call, buf, calls, base, applied,
                   peak, booted>>

\* line 89: flock(LOCK_SH)
ReadLock(w) ==
    /\ pc[w] = "r_lock"
    /\ CanLockSh(w)
    /\ lock' = [lock EXCEPT ![w] = "SH"]
    /\ pc' = [pc EXCEPT ![w] = "r_load"]
    /\ UNCHANGED <<torn, route, resp>>
    /\ UNCHANGED appvars
    /\ UNCHANGED <<cfg, exists, file, call, elements, buf, ret, calls, base,
                   applied, peak, booted>>

\* mutant: no try / except around json.load: the exception leaves
\* _read_story_file (and the with block, which closes f)
ReadLoadUncaught(w) ==
    /\ pc[w] = "r_load"
    /\ torn' = [torn EXCEPT ![w] = ~Load(file).ok]
    /\ IF Load(file).ok
       THEN /\ elements' = [elements EXCEPT ![w] = Load(file).data]
            /\ pc' = [pc EXCEPT ![w] = "r_unlock"]
            /\ UNCHANGED <<lock, ret>>
       ELSE /\ lock' = [lock EXCEPT ![w] = "UN"]
            /\ Return(w, Raised)
    /\ UNCHANGED <<route, resp>>
    /\ UNCHANGED appvars
    /\ UNCHANGED <<cfg, exists, file, call, buf, calls, base, applied, peak,
                   booted>>

\* lines 90-93: data = json.load(f), or [] when it raises
ReadLoad(w) ==
    /\ pc[w] = "r_load"
    /\ torn' = [torn EXCEPT ![w] = ~Load(file).ok]
    /\ elements' = [elements EXCEPT ![w] =
                       IF Load(file).ok THEN Load(file).data ELSE <<>>]
    /\ pc' = [pc EXCEPT ![w] = "r_unlock"]
    /\ UNCHANGED <<route, resp>>
    /\ UNCHANGED appvars
    /\ UNCHANGED <<cfg, exists, file, lock, call, buf, ret, calls, base,
                   applied, peak, booted>>

\* mutant: _read_story_file returns with the shared lock still held
ReadUnlockKeepsLock(w) ==
    /\ pc[w] = "r_unlock"
    /\ Return(w, ReadResult(w, elements[w]))
    /\ UNCHANGED <<torn, route, resp>>
    /\ UNCHANGED appvars
    /\ UNCHANGED <<cfg, exists, file, lock, call, buf, calls, base, applied,
                   peak, booted>>

\* lines 94-95: flock(LOCK_UN); return data
ReadUnlock(w) ==
    /\ pc[w] = "r_unlock"
    /\ lock' = [lock EXCEPT ![w] = "UN"]
    /\ Return(w, ReadResult(w, elements[w]))
    /\ UNCHANGED <<torn, route, resp>>
    /\ UNCHANGED appvars
    /\ UNCHANGED <<cfg, exists, file, call, buf, calls, base, applied, peak,
                   booted>>

(***************************************************************************)
(* _vote_story, behind addStoryLove / addStorySkip.                        *)
(***************************************************************************)

\* line 187: open(STORY_FILE, 'r+') raises FileNotFoundError without a file
VoteOpen(w) ==
    /\ pc[w] = "v_open"
    /\ IF exists
       THEN /\ pc' = [pc EXCEPT ![w] = "v_lock"]
            /\ UNCHANGED <<ret, elements>>
       ELSE Return(w, Raised)
    /\ UNCHANGED <<torn, route, resp>>
    /\ UNCHANGED appvars
    /\ UNCHANGED <<cfg, exists, file, lock, call, buf, calls, base, applied,
                   peak, booted>>

\* line 188: flock(LOCK_EX)
VoteLock(w) ==
    /\ pc[w] = "v_lock"
    /\ CanLockEx(w)
    /\ lock' = [lock EXCEPT ![w] = "EX"]
    /\ pc' = [pc EXCEPT ![w] = "v_load"]
    /\ UNCHANGED <<torn, route, resp>>
    /\ UNCHANGED appvars
    /\ UNCHANGED <<cfg, exists, file, call, elements, buf, ret, calls, base,
                   applied, peak, booted>>

\* line 190
InRange(id, data) == 0 <= id /\ id < Len(data)

\* mutant: the exception of json.load leaves _vote_story with the lock held
VoteLoadKeepsLock(w) ==
    /\ pc[w] = "v_load"
    /\ torn' = [torn EXCEPT ![w] = ~Load(file).ok]
    /\ LET l == Load(file)
       IN  IF ~l.ok
           THEN /\ Return(w, Raised)
                /\ UNCHANGED <<lock, buf>>
           ELSE IF InRange(call[w].id, l.data)
           THEN /\ elements' = [elements EXCEPT ![w] =
                                   Bump(l.data, call[w].id, call[w].field)]
                /\ buf' = [buf EXCEPT ![w] = Dump(elements'[w])]
                /\ pc' = [pc EXCEPT ![w] = "v_flush"]
                /\ UNCHANGED <<lock, ret>>
           ELSE /\ elements' = [elements EXCEPT ![w] = l.data]
                /\ pc' = [pc EXCEPT ![w] = "v_miss"]
                /\ UNCHANGED <<lock, buf, ret>>
    /\ UNCHANGED <<route, resp>>
    /\ UNCHANGED appvars
    /\ UNCHANGED <<cfg, exists, file, call, calls, base, applied, peak, booted>>

\* lines 189-194: elements = json.load(f), which may raise (leaving the with
\* block closes f and so drops the lock); in range, the increment, f.seek(0)
\* and json.dump into f's buffer
VoteLoad(w) ==
    /\ pc[w] = "v_load"
    /\ torn' = [torn EXCEPT ![w] = ~Load(file).ok]
    /\ LET l == Load(file)
       IN  IF ~l.ok
           THEN /\ lock' = [lock EXCEPT ![w] = "UN"]
                /\ Return(w, Raised)
                /\ UNCHANGED buf
           ELSE IF InRange(call[w].id, l.data)
           THEN /\ elements' = [elements EXCEPT ![w] =
                                   Bump(l.data, call[w].id, call[w].field)]
                /\ buf' = [buf EXCEPT ![w] = Dump(elements'[w])]
                /\ pc' = [pc EXCEPT ![w] = "v_flush"]
                /\ UNCHANGED <<lock, ret>>
           ELSE /\ elements' = [elements EXCEPT ![w] = l.data]
                /\ pc' = [pc EXCEPT ![w] = "v_miss"]
                /\ UNCHANGED <<lock, buf, ret>>
    /\ UNCHANGED <<route, resp>>
    /\ UNCHANGED appvars
    /\ UNCHANGED <<cfg, exists, file, call, calls, base, applied, peak, booted>>

\* line 196, first half: f.truncate() flushes the buffer at offset 0
VoteFlush(w) ==
    /\ pc[w] = "v_flush"
    /\ file' = WriteAtStart(file, buf[w])
    /\ peak' = PeakOf(peak, file')
    /\ pc' = [pc EXCEPT ![w] = "v_trunc"]
    /\ UNCHANGED <<torn, route, resp>>
    /\ UNCHANGED appvars
    /\ UNCHANGED <<cfg, exists, lock, call, elements, buf, ret, calls, base,
                   applied, booted>>

\* line 196, second half: ftruncate at the position after the payload
VoteTruncate(w) ==
    /\ pc[w] = "v_trunc"
    /\ file' = FTruncate(file, Len(buf[w]))
    /\ buf' = [buf EXCEPT ![w] = <<>>]
    /\ peak' = PeakOf(peak, file')
    /\ pc' = [pc EXCEPT ![w] = "v_unlock"]
    /\ UNCHANGED <<torn, route, resp>>
    /\ UNCHANGED appvars
    /\ UNCHANGED <<cfg, exists, lock, call, elements, ret, calls, base,
                   applied, booted>>

\* lines 197-198: flock(LOCK_UN); return elements[id][field]
VoteUnlock(w) ==
    /\ pc[w] = "v_unlock"
    /\ lock' = [lock EXCEPT ![w] = "UN"]
    /\ applied' = [applied EXCEPT ![call[w].id + 1][call[w].field] = @ + 1]
    /\ Return(w, IntOf(elements[w][call[w].id + 1][call[w].field]))
    /\ UNCHANGED <<torn, route, resp>>
    /\ UNCHANGED appvars
    /\ UNCHANGED <<cfg, exists, file, call, buf, calls, base, peak, booted>>

\* mutant: an id out of range raises IndexError instead of returning None
VoteMissRaises(w) ==
    /\ pc[w] = "v_miss"
    /\ lock' = [lock EXCEPT ![w] = "UN"]
    /\ Return(w, Raised)
    /\ UNCHANGED <<torn, route, resp>>
    /\ UNCHANGED appvars
    /\ UNCHANGED <<cfg, exists, file, call, buf, calls, base, applied, peak,
                   booted>>

\* lines 199-200: id out of range: flock(LOCK_UN); return None
VoteMiss(w) ==
    /\ pc[w] = "v_miss"
    /\ lock' = [lock EXCEPT ![w] = "UN"]
    /\ Return(w, None)
    /\ UNCHANGED <<torn, route, resp>>
    /\ UNCHANGED appvars
    /\ UNCHANGED <<cfg, exists, file, call, buf, calls, base, applied, peak,
                   booted>>

(***************************************************************************)
(* The HTTP resources of src/api/rpg_api.py over the store.                *)
(***************************************************************************)

\* the ids the routes /api/rpg/story/<int:id> let through: the int converter
\* matches unsigned decimal numbers only
HttpIds == 0..NumRecords

\* jsonify(value): the JSON text of the response body
Jsonify(r) ==
    [json |-> IF r.k = "none" THEN "null"
              ELSE IF r.k = "rec" THEN "object"
              ELSE IF r.k = "list" THEN "array"
              ELSE "number",
     v |-> r.v]

\* a worker takes the next request when it has answered the last one
Idle(w) == Free(w) /\ route[w].name = "none"

Serve(w, name, id) ==
    route' = [route EXCEPT ![w] = [name |-> name, id |-> id, voted |-> None]]

\* GET /api/rpg/story: getStoryElements()
StoryElementsAPI_get(w) ==
    /\ Idle(w) /\ calls.read < cfg.reads
    /\ calls' = [calls EXCEPT !.read = @ + 1]
    /\ Serve(w, "story", 0)
    /\ Begin(w, "list", 0, "none", "r_check")
    /\ UNCHANGED resp

\* GET /api/rpg/story/<id>: getStoryElement(id)
StoryElementAPI_get(w) ==
    /\ Idle(w) /\ calls.read < cfg.reads
    /\ calls' = [calls EXCEPT !.read = @ + 1]
    /\ \E id \in HttpIds :
           /\ Serve(w, "element", id)
           /\ Begin(w, "get", id, "none", "r_check")
    /\ UNCHANGED resp

\* PUT /api/rpg/story/love/<id>: addStoryLove(id) ...
StoryLoveAPI_put(w) ==
    /\ Idle(w) /\ calls.vote < cfg.votes
    /\ calls' = [calls EXCEPT !.vote = @ + 1]
    /\ \E id \in HttpIds :
           /\ Serve(w, "love", id)
           /\ Begin(w, "vote", id, "love", "v_open")
    /\ UNCHANGED resp

\* PUT /api/rpg/story/skip/<id>: addStorySkip(id) ...
StorySkipAPI_put(w) ==
    /\ Idle(w) /\ calls.vote < cfg.votes
    /\ calls' = [calls EXCEPT !.vote = @ + 1]
    /\ \E id \in HttpIds :
           /\ Serve(w, "skip", id)
           /\ Begin(w, "vote", id, "skip", "v_open")
    /\ UNCHANGED resp

\* ... then getStoryElement(id), the value addStoryLove / addStorySkip
\* returned being dropped (kept here as history in route.voted)
PutReadBack(w) ==
    /\ pc[w] = "done" /\ route[w].name \in Fields
    /\ call[w].op = "vote" /\ ret[w].k # "raise"
    /\ route' = [route EXCEPT ![w].voted = ret[w]]
    /\ Begin(w, "get", route[w].id, "none", "r_check")
    /\ UNCHANGED <<calls, resp>>

\* return jsonify(...): status 200 whatever the value; an exception that
\* leaves the handler is answered by the framework with status 500
Respond(w) ==
    /\ pc[w] = "done" /\ route[w].name # "none"
    /\ call[w].op \in {"list", "get"} \/ ret[w].k = "raise"
    /\ resp' = [resp EXCEPT ![w] =
                   [status |-> IF ret[w].k = "raise" THEN 500 ELSE 200,
                    body |-> Jsonify(ret[w]),
                    of |-> route[w]]]
    /\ route' = [route EXCEPT ![w] = NoRoute]
    /\ UNCHANGED appvars
    /\ UNCHANGED <<cfg, exists, file, lock, pc, call, elements, buf, ret,
                   calls, base, applied, peak, booted, torn>>

(***************************************************************************)
(* The statistics database (rpg_statistics.db).  Every worker process runs *)
(* the initialization when it starts and serves requests afterwards.  A    *)
(* connection's INSERT, UPDATE and DELETE statements open a transaction    *)
(* that holds the database's write lock until commit and whose changes no  *)
(* other connection sees before; a SELECT outside a transaction reads the  *)
(* committed rows.  A statement that finds the write lock taken waits.     *)
(***************************************************************************)
\* the modes record_selection accepts
Modes == {"chill", "action"}

\* what a request may send as mode ("" for none) and as userId
RequestModes == Modes \cup {"zen", ""}
RequestUsers == {"anonymous", "ada"}

RECURSIVE Tally(_, _)
\* for row in stats_rows: stats[mode] = count; stats['total'] += count
Tally(stats_rows, stats) ==
    IF stats_rows = <<>> THEN stats
    ELSE LET row == Head(stats_rows)
         IN  Tally(Tail(stats_rows),
                   [stats EXCEPT ![row.mode] = row.count,
                                 !.total = @ + row.count])

RECURSIVE Reverse(_)
Reverse(rows) ==
    IF rows = <<>> THEN <<>>
    ELSE Append(Reverse(Tail(rows)), Head(rows))

\* SELECT ... FROM history ORDER BY id DESC LIMIT 100
LastRows(history) ==
    LET desc == Reverse(history)
    IN  IF Len(desc) <= HISTORY_LIMIT THEN desc
        ELSE SubSeq(desc, 1, HISTORY_LIMIT)

\* mutant: the UPDATE has no WHERE clause
CountUpAll(rows, mode) ==
    [i \in 1..Len(rows) |-> [rows[i] EXCEPT !.count = @ + 1]]

\* UPDATE statistics SET count = count + 1 WHERE mode = ?
CountUp(rows, mode) ==
    [i \in 1..Len(rows) |->
        IF rows[i].mode = mode THEN [rows[i] EXCEPT !.count = @ + 1]
        ELSE rows[i]]

\* mutant: the UPDATE reaches the first row only
CountZeroFirstRow(rows) ==
    [i \in 1..Len(rows) |->
        IF i = 1 THEN [rows[i] EXCEPT !.count = 0] ELSE rows[i]]

\* UPDATE statistics SET count = 0
CountZero(rows) ==
    [i \in 1..Len(rows) |-> [rows[i] EXCEPT !.count = 0]]

\* the write lock is free for w's statement, or w's transaction holds it
CanWrite(w) == statsdb.owner \in {0, w}

StatsFrame ==
    UNCHANGED <<storyvars, usersdb, usersw, user_model, keydb>>

\* w's statement moves on to at, its local values changed as in upd
StatsStep(w, upd) ==
    /\ statsw' = [statsw EXCEPT ![w] = upd]
    /\ StatsFrame

\* conn.commit(): the transaction's rows become the database's
Commit(w, at) ==
    /\ statsdb' = [statsdb EXCEPT !.statistics = statsw[w].statistics,
                                  !.history = statsw[w].history,
                                  !.owner = 0,
                                  !.version = @ + 1]
    /\ StatsStep(w, [statsw[w] EXCEPT !.pc = at,
                                      !.at = statsdb.version + 1])

\* the first statement of a transaction takes the write lock and works on
\* the committed rows
Locked(w) ==
    [statsdb EXCEPT !.owner = w]

\* init_rpg_stats / init_db: CREATE TABLE IF NOT EXISTS statistics, history
InitCreate(w) ==
    /\ statsw[w].pc = "boot"
    /\ statsdb.owner = 0
    /\ statsdb' = [statsdb EXCEPT !.tables = TRUE]
    /\ StatsStep(w, [statsw[w] EXCEPT !.pc = "i_count", !.op = "init"])

\* SELECT COUNT(*) FROM statistics
InitCount(w) ==
    /\ statsw[w].pc = "i_count"
    /\ UNCHANGED statsdb
    /\ StatsStep(w, [statsw[w] EXCEPT
                        !.n = Len(statsdb.statistics),
                        !.pc = IF Len(statsdb.statistics) = 0
                               THEN "i_insert" ELSE "i_commit"])

\* INSERT chill, INSERT action; with UNIQUE on mode the INSERT of a mode
\* that is there raises IntegrityError out of the initialization
InitInsert(w) ==
    /\ statsw[w].pc = "i_insert"
    /\ statsdb.owner = 0
    /\ IF statsdb.unique
          /\ \E i \in 1..Len(statsdb.statistics) :
                 statsdb.statistics[i].mode \in Modes
       THEN /\ UNCHANGED statsdb
            /\ StatsStep(w, [statsw[w] EXCEPT !.pc = "crashed"])
       ELSE /\ statsdb' = Locked(w)
            /\ StatsStep(w, [statsw[w] EXCEPT
                   !.statistics = statsdb.statistics
                       \o <<[mode |-> "chill", count |-> 0],
                            [mode |-> "action", count |-> 0]>>,
                   !.history = statsdb.history,
                   !.pc = "i_commit"])

\* conn.commit() at the end of the initialization
InitCommit(w) ==
    /\ statsw[w].pc = "i_commit"
    /\ IF statsdb.owner = w
       THEN Commit(w, "idle")
       ELSE /\ UNCHANGED statsdb
            /\ StatsStep(w, [statsw[w] EXCEPT !.pc = "idle"])

\* a request arrives at a process that has started
StatsRequest(w, kind, op, mode, user_id, at) ==
    /\ statsw[w].pc = "idle"
    /\ statsdb.calls[kind] < (CASE kind = "record" -> StatsRecords
                                [] kind = "reset" -> StatsResets
                                [] OTHER -> StatsGets)
    /\ statsdb' = [statsdb EXCEPT !.calls[kind] = @ + 1]
    /\ StatsStep(w, [NoStatsWorker EXCEPT !.pc = at, !.op = op,
                                          !.mode = mode,
                                          !.user_id = user_id])

\* the response leaves
StatsRespond(w, status, error, stats, history) ==
    /\ UNCHANGED statsdb
    /\ StatsStep(w, [statsw[w] EXCEPT
           !.pc = "idle",
           !.resp = [status |-> status, error |-> error, stats |-> stats,
                     history |-> history,
                     \* history: no other request has committed between
                     \* this request's commit and its two SELECTs
                     fresh |-> /\ statsw[w].at = statsw[w].seen
                               /\ statsw[w].at = statsdb.version]])

\* record_selection, record_selection_legacy: mode and userId of the request
record_selection(w) ==
    \E mode \in RequestModes, user_id \in RequestUsers :
        StatsRequest(w, "record", "record", mode, user_id, "r_check")

\* if mode not in ['chill', 'action']: 400
RecordCheck(w) ==
    /\ statsw[w].pc = "r_check"
    /\ IF statsw[w].mode \in Modes
       THEN /\ UNCHANGED statsdb
            /\ StatsStep(w, [statsw[w] EXCEPT !.pc = "r_update"])
       ELSE StatsRespond(w, 400, "Invalid mode", NoStats, <<>>)

RecordUpdate(w) ==
    /\ statsw[w].pc = "r_update"
    /\ statsdb.owner = 0
    /\ statsdb' = Locked(w)
    /\ StatsStep(w, [statsw[w] EXCEPT
           !.statistics = CountUp(statsdb.statistics, statsw[w].mode),
           !.history = statsdb.history,
           !.pc = "r_insert"])

\* INSERT INTO history (user_id, mode, timestamp)
RecordInsert(w) ==
    /\ statsw[w].pc = "r_insert"
    /\ UNCHANGED statsdb
    /\ StatsStep(w, [statsw[w] EXCEPT
           !.history = Append(@, [user_id |-> statsw[w].user_id,
                                  mode |-> statsw[w].mode]),
           !.pc = "r_commit"])

RecordCommit(w) ==
    /\ statsw[w].pc = "r_commit"
    /\ Commit(w, "g_stats")

\* reset_stats
reset_stats(w) == StatsRequest(w, "reset", "reset", "", "", "x_update")

ResetUpdate(w) ==
    /\ statsw[w].pc = "x_update"
    /\ statsdb.owner = 0
    /\ statsdb' = Locked(w)
    /\ StatsStep(w, [statsw[w] EXCEPT
           !.statistics = CountZero(statsdb.statistics),
           !.history = statsdb.history,
           !.pc = "x_delete"])

\* DELETE FROM history
ResetDelete(w) ==
    /\ statsw[w].pc = "x_delete"
    /\ UNCHANGED statsdb
    /\ StatsStep(w, [statsw[w] EXCEPT !.history = <<>>, !.pc = "x_commit"])

ResetCommit(w) ==
    /\ statsw[w].pc = "x_commit"
    /\ Commit(w, "g_stats")

\* get_stats
get_stats(w) ==
    /\ StatsRequest(w, "get", "get", "", "", "g_stats")

\* get_statistics: SELECT mode, count FROM statistics and the loop over it
SelectStatistics(w) ==
    /\ statsw[w].pc = "g_stats"
    /\ UNCHANGED statsdb
    /\ StatsStep(w, [statsw[w] EXCEPT
           !.stats = Tally(statsdb.statistics, NoStats),
           !.seen = statsdb.version,
           !.pc = "g_history"])

\* get_statistics: SELECT ... FROM history, and the response with both
SelectHistory(w) ==
    /\ statsw[w].pc = "g_history"
    /\ StatsRespond(w, 200, "", statsw[w].stats, LastRows(statsdb.history))

init_rpg_stats(w) ==
    InitCreate(w) \/ InitCount(w) \/ InitInsert(w) \/ InitCommit(w)

Recording(w) ==
    RecordCheck(w) \/ RecordUpdate(w) \/ RecordInsert(w) \/ RecordCommit(w)

Resetting(w) == ResetUpdate(w) \/ ResetDelete(w) \/ ResetCommit(w)

get_statistics(w) == SelectStatistics(w) \/ SelectHistory(w)

(***************************************************************************)
(* RPG users: RPGDataAPI.post and RPGLoginAPI.post over the rpg_users      *)
(* table.  A field of the request's JSON that is absent or empty is "".    *)
(***************************************************************************)
\* what a registration sends
UserData ==
    [FirstName : {"", "Ada"}, LastName : {"", "Lee"},
     GitHubID : {"", "johndoe", "ada"}, Password : {"", "pw"}]

\* what a login sends
LoginData ==
    [FirstName : {""}, LastName : {""},
     GitHubID : {"", "johndoe", "ada"}, Password : {"", "password123", "pw"}]

required_fields == <<"FirstName", "LastName", "GitHubID", "Password">>

\* the first required field the request lacks, "" when it has them all
RECURSIVE FirstMissing(_, _)
FirstMissing(user_data, i) ==
    IF i > Len(required_fields) THEN ""
    ELSE IF user_data[required_fields[i]] = "" THEN required_fields[i]
    ELSE FirstMissing(user_data, i + 1)

\* RPGUser.find_by_github_id: the positions of the rows with this GitHub ID
find_by_github_id(rows, github_id) ==
    {i \in 1..Len(rows) : rows[i].github_id = github_id}

\* mutant: the column is declared without unique=True
UniqueViolatedNever(rows, github_id) == FALSE

\* _github_id is unique=True: the INSERT of a GitHub ID that is there fails
UniqueViolated(rows, github_id) == find_by_github_id(rows, github_id) # {}

\* RPGUser.read
read(row) ==
    [id |-> row.id, FirstName |-> row.first_name,
     LastName |-> row.last_name, GitHubID |-> row.github_id]

UsersFrame == UNCHANGED <<storyvars, statsdb, statsw, user_model, keydb>>

UsersRespond(w, status, message, user) ==
    /\ usersw' = [usersw EXCEPT ![w].pc = "idle",
                                ![w].resp = [status |-> status,
                                             message |-> message,
                                             user |-> user]]
    /\ UsersFrame

\* RPGDataAPI.post: the request's JSON and its validation
RPGDataAPI_post(w) ==
    \E user_data \in UserData :
        /\ usersw[w].pc = "idle"
        /\ usersdb.calls.post < UsersPosts
        /\ usersdb' = [usersdb EXCEPT !.calls.post = @ + 1]
        /\ LET missing == FirstMissing(user_data, 1)
               arrived == [NoUsersWorker EXCEPT
                              !.op = "post", !.data = user_data,
                              \* history: the GitHub ID was registered
                              \* when the request arrived
                              !.had = find_by_github_id(usersdb.rows,
                                          user_data.GitHubID) # {}]
           IN  usersw' = [usersw EXCEPT ![w] =
                   IF user_data = NoUserData
                   THEN [arrived EXCEPT
                            !.resp = [status |-> 400,
                                      message |-> "No data provided",
                                      user |-> NoUser]]
                   ELSE IF missing # ""
                   THEN [arrived EXCEPT
                            !.resp = [status |-> 400,
                                      message |-> "is required",
                                      user |-> NoUser]]
                   ELSE [arrived EXCEPT !.pc = "u_find"]]
        /\ UsersFrame

\* existing_user = RPGUser.find_by_github_id(user_data['GitHubID'])
RPGDataAPI_find(w) ==
    /\ usersw[w].pc = "u_find"
    /\ UNCHANGED usersdb
    /\ IF find_by_github_id(usersdb.rows, usersw[w].data.GitHubID) # {}
       THEN UsersRespond(w, 409, "User with this GitHub ID already exists",
                         NoUser)
       ELSE /\ usersw' = [usersw EXCEPT ![w].pc = "u_create"]
            /\ UsersFrame

\* created_user = new_user.create(): add and commit, or IntegrityError,
\* rollback and None
create(w) ==
    /\ usersw[w].pc = "u_create"
    /\ LET data == usersw[w].data
           row == RPGUser(Len(usersdb.rows) + 1, data.FirstName,
                          data.LastName, data.GitHubID, data.Password)
       IN  IF UniqueViolated(usersdb.rows, data.GitHubID)
           THEN /\ UNCHANGED usersdb
                /\ UsersRespond(w, 500, "Failed to create user", NoUser)
           ELSE /\ usersdb' = [usersdb EXCEPT !.rows = Append(@, row)]
                /\ UsersRespond(w, 201, "User registered successfully",
                                read(row))

\* RPGLoginAPI.post: after the validation it calls
\* RPGUser.find_by_github_id_and_password, which RPGUser does not define:
\* AttributeError, answered 500
RPGLoginAPI_post(w) ==
    \E login_data \in LoginData :
        /\ usersw[w].pc = "idle"
        /\ usersdb.calls.login < UsersLogins
        /\ usersdb' = [usersdb EXCEPT !.calls.login = @ + 1]
        /\ LET arrived == [NoUsersWorker EXCEPT
                              !.op = "login", !.data = login_data]
           IN  usersw' = [usersw EXCEPT ![w] =
                   IF login_data = NoUserData
                   THEN [arrived EXCEPT
                            !.resp = [status |-> 400,
                                      message |-> "No data provided",
                                      user |-> NoUser]]
                   ELSE IF login_data.GitHubID = ""
                           \/ login_data.Password = ""
                   THEN [arrived EXCEPT
                            !.resp = [status |-> 400,
                                      message |->
                                        "GitHubID and Password are required",
                                      user |-> NoUser]]
                   ELSE [arrived EXCEPT
                            !.resp = [status |-> 500,
                                      message |-> "Internal Server Error",
                                      user |-> NoUser]]]
        /\ UsersFrame

(***************************************************************************)
(* src/rpg.py: the in-memory UserModel and DataAPI.post.  Calls come one   *)
(* after another.  A key that user_data lacks, for which get() gives None, *)
(* is "".                                                                  *)
(***************************************************************************)
\* what a create call or a registration passes
ModelUserData ==
    [FirstName : {"", "Ada"}, LastName : {"", "Lee"},
     GitHubID : {"", "johndoe", "ada", "bob"}]

\* for user in self.users: if user['GitHubID'] == user_data.get('GitHubID')
Exists(users, user_data) ==
    \E i \in 1..Len(users) : users[i].GitHubID = user_data.GitHubID

\* mutant: the counter is left as it was
NextIdStays(next_id) == next_id

\* self.next_id += 1
NextId(next_id) == next_id + 1

\* UserModel.create: the model afterwards and what the call returns
UserModel_create(model, user_data) ==
    IF Exists(model.users, user_data)
    THEN [model |-> model, created |-> FALSE, user |-> NoUser]
    ELSE LET new_user == [id |-> model.next_id,
                          FirstName |-> user_data.FirstName,
                          LastName |-> user_data.LastName,
                          GitHubID |-> user_data.GitHubID]
         IN  [model |-> [users |-> Append(model.users, new_user),
                         next_id |-> NextId(model.next_id)],
              created |-> TRUE, user |-> new_user]

ModelFrame == UNCHANGED <<storyvars, statsdb, statsw, usersdb, usersw, keydb>>

\* user_model.create(user_data), called directly
DirectCreate ==
    \E user_data \in ModelUserData :
        /\ user_model.calls.create < ModelCreates
        /\ LET r == UserModel_create(user_model.model, user_data)
           IN  user_model' =
                   [model |-> r.model,
                    calls |-> [user_model.calls EXCEPT !.create = @ + 1],
                    last |-> [op |-> "create", data |-> user_data,
                              created |-> r.created, user |-> r.user,
                              status |-> 0, message |-> ""]]
        /\ ModelFrame

\* DataAPI.post
DataAPI_post ==
    \E user_data \in ModelUserData :
        /\ user_model.calls.post < ModelPosts
        /\ LET r == UserModel_create(user_model.model, user_data)
               counted == [user_model.calls EXCEPT !.post = @ + 1]
               this == [NoModelCall EXCEPT !.op = "post", !.data = user_data]
           IN  user_model' =
                   IF user_data.FirstName = "" \/ user_data.LastName = ""
                         \/ user_data.GitHubID = ""
                   THEN [user_model EXCEPT
                            !.calls = counted,
                            !.last = [this EXCEPT
                                         !.status = 400,
                                         !.message = "is required"]]
                   ELSE [model |-> r.model, calls |-> counted,
                         last |-> IF r.created
                                  THEN [this EXCEPT
                                           !.created = TRUE,
                                           !.user = r.user,
                                           !.status = 201,
                                           !.message =
                                             "User registered successfully"]
                                  ELSE [this EXCEPT
                                           !.status = 409,
                                           !.message =
                                   "User with this GitHub ID already exists"]]
        /\ ModelFrame

(***************************************************************************)
(* Key bindings: KeyBindingAPI.post and KeyBindingAPI.get over the         *)
(* key_bindings table.  Each handler runs one statement.  moveUpKey stands *)
(* for the five core keys, which are validated alike, and the optional     *)
(* keys are left out.  CURRENT_TIMESTAMP is the clock in whole seconds.    *)
(***************************************************************************)
\* what a save sends ("" for an absent or blank field)
KeyData ==
    [userGithubId : {"", "ada"}, gameMode : {"", "cozy", "action"},
     moveUpKey : {"", "W", "K"}, jumpKey : {"", "Space"}]

\* what a read sends
KeyQuery == [userGithubId : {"", "ada"}, gameMode : {"", "cozy", "action"}]

\* data.get('gameMode', 'action').strip() or 'action'
GameMode(data) == IF data.gameMode = "" THEN "action" ELSE data.gameMode

\* the required fields the save lacks
Missing(data) ==
    {f \in {"userGithubId", "moveUpKey"} : data[f] = ""}
        \cup (IF GameMode(data) # "cozy" /\ data.jumpKey = ""
              THEN {"jumpKey"} ELSE {})

\* WHERE user_github_id = ? [AND game_mode = ?]
Matching(rows, query) ==
    {i \in 1..Len(rows) :
        /\ rows[i].user_github_id = query.userGithubId
        /\ query.gameMode # "" => rows[i].game_mode = query.gameMode}

\* ORDER BY created_at DESC LIMIT 1: a row none of the others is newer
\* than; SQL leaves the order of rows with equal created_at open
Newest(rows, among) ==
    {i \in among : \A j \in among : rows[j].created_at <= rows[i].created_at}

KeysFrame ==
    UNCHANGED <<storyvars, statsdb, statsw, usersdb, usersw, user_model>>

\* KeyBindingAPI.post
KeyBindingAPI_post ==
    \E data \in KeyData :
        /\ keydb.calls.post < KeyPosts
        /\ LET row == [id |-> Len(keydb.rows) + 1,
                       user_github_id |-> data.userGithubId,
                       game_mode |-> GameMode(data),
                       move_up_key |-> data.moveUpKey,
                       jump_key |-> data.jumpKey,
                       created_at |-> keydb.now]
               this == [NoKeysCall EXCEPT !.op = "post",
                                          !.userGithubId = data.userGithubId,
                                          !.gameMode = GameMode(data)]
           IN  keydb' =
                   IF Missing(data) # {}
                   THEN [keydb EXCEPT
                            !.calls.post = @ + 1,
                            !.last = [this EXCEPT
                                         !.status = 400,
                                         !.message =
                                             "Missing required fields"]]
                   ELSE [keydb EXCEPT
                            !.calls.post = @ + 1,
                            !.rows = Append(@, row),
                            !.last = [this EXCEPT !.status = 201,
                                                  !.binding = row]]
        /\ KeysFrame

\* KeyBindingAPI.get
KeyBindingAPI_get ==
    \E query \in KeyQuery :
        /\ keydb.calls.get < KeyGets
        /\ LET this == [NoKeysCall EXCEPT !.op = "get",
                                          !.userGithubId = query.userGithubId,
                                          !.gameMode = query.gameMode]
               among == Matching(keydb.rows, query)
           IN  IF query.userGithubId = ""
               THEN keydb' = [keydb EXCEPT
                        !.calls.get = @ + 1,
                        !.last = [this EXCEPT
                                     !.status = 400,
                                     !.message =
                                         "User GitHub ID is required"]]
               ELSE IF among = {}
               THEN keydb' = [keydb EXCEPT
                        !.calls.get = @ + 1,
                        !.last = [this EXCEPT
                                     !.status = 404,
                                     !.message =
                                   "No key bindings found for this user"]]
               ELSE \E i \in Newest(keydb.rows, among) :
                        keydb' = [keydb EXCEPT
                            !.calls.get = @ + 1,
                            !.last = [this EXCEPT
                                         !.status = 200,
                                         !.binding = keydb.rows[i]]]
        /\ KeysFrame

\* a second passes
Tick ==
    /\ keydb.calls.tick < KeyTicks
    /\ keydb' = [keydb EXCEPT !.now = @ + 1, !.calls.tick = @ + 1]
    /\ KeysFrame

(***************************************************************************)
(* Specifications.                                                         *)
(***************************************************************************)
Reading(w) ==
    \/ ReadCheck(w) \/ ReadLock(w) \/ ReadLoad(w) \/ ReadUnlock(w)

Voting(w) ==
    \/ VoteOpen(w) \/ VoteLock(w) \/ VoteLoad(w) \/ VoteFlush(w)
    \/ VoteTruncate(w) \/ VoteUnlock(w) \/ VoteMiss(w)

Writing(w) ==
    \/ WriteOpen(w) \/ WriteLock(w) \/ WriteUnlock(w) \/ WriteClose(w)

Next == \E w \in Workers :
    \/ CallInit(w) \/ InitCheck(w) \/ Writing(w)
    \/ CallList(w) \/ CallGet(w) \/ CallCount(w) \/ Reading(w)
    \/ CallVote(w) \/ Voting(w)

\* on an existing store initStoryElements never reaches _write_story_file
NextRun == \E w \in Workers :
    \/ CallInit(w) \/ InitCheck(w)
    \/ CallList(w) \/ CallGet(w) \/ Reading(w)
    \/ CallVote(w) \/ Voting(w)

\* boot, then listings
NextSeed == \E w \in Workers :
    \/ CallInit(w) \/ InitCheck(w) \/ Writing(w)
    \/ CallList(w) \/ Reading(w)

\* requests come in through the HTTP resources
NextHttp == \E w \in Workers :
    \/ StoryElementsAPI_get(w) \/ StoryElementAPI_get(w)
    \/ StoryLoveAPI_put(w) \/ StorySkipAPI_put(w)
    \/ PutReadBack(w) \/ Respond(w)
    \/ Reading(w) \/ Voting(w)

\* workers boot on a fresh deployment and serve requests
Spec == Init /\ [][Next]_vars

\* workers serve requests on a store initialized at boot
SpecRun == InitRun /\ [][NextRun]_vars

\* workers serve HTTP requests on a store initialized at boot
SpecHttp == InitHttp /\ [][NextHttp]_vars

\* the steps of the function a worker runs, which the scheduler does not
\* withhold for ever; flock grants a lock that stays grantable
Step(w) == InitCheck(w) \/ Reading(w) \/ Voting(w)

\* workers serve requests on an initialized store, under fair scheduling
\* and fair lock granting
SpecLive ==
    InitLive /\ [][NextRun]_vars /\ \A w \in Workers : WF_vars(Step(w))

\* boot, then listings and votes
NextTally == \E w \in Workers :
    \/ CallInit(w) \/ InitCheck(w) \/ Writing(w)
    \/ CallList(w) \/ Reading(w)
    \/ CallVote(w) \/ Voting(w)

\* one boot primes a fresh deployment with 15 love and 8 skip votes
SpecTally == InitTally /\ [][NextTally]_vars

\* a fresh statistics database of either schema
InitStats ==
    /\ StoryOff
    /\ \E unique \in BOOLEAN :
           statsdb = [unique |-> unique, tables |-> FALSE,
                      statistics |-> <<>>, history |-> <<>>, owner |-> 0,
                      version |-> 0,
                      calls |-> [record |-> 0, reset |-> 0, get |-> 0]]
    /\ statsw = [w \in Workers |-> NoStatsWorker]
    /\ UsersOff
    /\ UserModelOff
    /\ KeysOff

NextStats == \E w \in Workers :
    \/ init_rpg_stats(w)
    \/ record_selection(w) \/ Recording(w)
    \/ reset_stats(w) \/ Resetting(w)
    \/ get_stats(w) \/ get_statistics(w)

\* worker processes start and serve statistics requests
SpecStats == InitStats /\ [][NextStats]_vars

\* the rpg_users table after initRPGUsers
InitUsers ==
    /\ StoryOff
    /\ StatsOff
    /\ UsersOff
    /\ UserModelOff
    /\ KeysOff

NextUsers == \E w \in Workers :
    \/ RPGDataAPI_post(w) \/ RPGDataAPI_find(w) \/ create(w)
    \/ RPGLoginAPI_post(w)

\* workers serve registrations and logins
SpecUsers == InitUsers /\ [][NextUsers]_vars

\* src/rpg.py after user_model = UserModel()
InitUserModel ==
    /\ StoryOff
    /\ StatsOff
    /\ UsersOff
    /\ UserModelOff
    /\ KeysOff

NextUserModel == DirectCreate \/ DataAPI_post

\* create calls and registrations, one after another
SpecUserModel == InitUserModel /\ [][NextUserModel]_vars

\* the key_bindings table after init_rpg_db
InitKeys ==
    /\ StoryOff
    /\ StatsOff
    /\ UsersOff
    /\ UserModelOff
    /\ KeysOff

NextKeys == KeyBindingAPI_post \/ KeyBindingAPI_get \/ Tick

\* key bindings are saved and read while time passes
SpecKeys == InitKeys /\ [][NextKeys]_vars

\* one worker boots a fresh deployment with the catalog of 6 x 8
SpecSeed == InitSeed /\ [][NextSeed]_vars

(***************************************************************************)
(* Properties.                                                             *)
(***************************************************************************)

\* the collection of the initialized store with every increment that has
\* returned a value added to its record and field
Logical ==
    [p \in 1..Len(base) |->
        [base[p] EXCEPT !.love = @ + applied[p].love,
                        !.skip = @ + applied[p].skip]]

NoWriter == \A w \in Workers : lock[w] # "EX"

Quiet == \A w \in Workers : pc[w] \in {"idle", "done"}

Stored == Load(file)

\* C1: no lost update between concurrent voters.  On an initialized store,
\* whenever no worker is inside the locked section of _vote_story, the file
\* parses and every record's love and skip equal the initial value plus the
\* number of increments of that record and field that have returned.
C1_NoLostUpdate ==
    NoWriter =>
        /\ Stored.ok
        /\ Len(Stored.data) = NumRecords
        /\ \A p \in 1..NumRecords : \A f \in Fields :
               Stored.data[p][f] = base[p][f] + applied[p][f]

\* two workers have both voted for the same field of the same record, one of
\* them waiting for the lock while the other held it
C1_Witness ==
    \E w \in Workers : \E v \in Workers \ {w} :
        /\ pc[w] = "done" /\ call[w].op = "vote" /\ ret[w].k = "int"
        /\ pc[v] = "v_unlock" /\ call[v].op = "vote"
        /\ call[w].id = call[v].id /\ call[w].field = call[v].field
        /\ ret[w].n = base[call[w].id + 1][call[w].field] + 1
        /\ elements[v][call[v].id + 1][call[v].field] = ret[w].n + 1

\* C2: N increments yield initial + N whatever readers run beside them, and
\* every list_all / get that returns hands back a complete collection (a
\* record of it) whose counters lie between the initial value and the
\* initial value plus the increments made.
C2_ReadersSeeWholeWrites ==
    /\ Quiet => \A p \in 1..NumRecords : \A f \in Fields :
           Stored.ok /\ Stored.data[p][f] = base[p][f] + applied[p][f]
    /\ \A w \in Workers :
         /\ pc[w] = "done" /\ call[w].op = "list" =>
              /\ ret[w].k = "list"
              /\ Len(ret[w].v) = NumRecords
              /\ \A p \in 1..NumRecords : \A f \in Fields :
                     /\ ret[w].v[p][f] >= base[p][f]
                     /\ ret[w].v[p][f] <= base[p][f] + applied[p][f]
         /\ pc[w] = "done" /\ call[w].op = "get"
              /\ InRange(call[w].id, base) =>
              /\ ret[w].k = "rec"
              /\ \A f \in Fields :
                     /\ ret[w].v[1][f] >= base[call[w].id + 1][f]
                     /\ ret[w].v[1][f] <= Logical[call[w].id + 1][f]

\* a listing that returned after one increment and before the next shows the
\* first increment, and the second has been written since
C2_Witness ==
    \E w \in Workers, p \in 1..NumRecords :
        /\ pc[w] = "done" /\ call[w].op = "list"
        /\ Len(ret[w].v) = NumRecords
        /\ ret[w].v[p].love = base[p].love + 1
        /\ applied[p].love = 2

\* C3: one increment(id, field) raises that counter by exactly 1, is about
\* to return the new value, and leaves the record's other counter, its id,
\* category and element, and every other record as they were.  Checked when
\* _vote_story has written and still holds the lock.
C3_IncrementFrame ==
    \A w \in Workers :
        pc[w] = "v_unlock" =>
            LET at == call[w].id + 1
                f == call[w].field
                g == CHOOSE x \in Fields : x # f
            IN  /\ Stored.ok
                /\ Len(Stored.data) = NumRecords
                /\ Stored.data[at][f] = Logical[at][f] + 1
                /\ elements[w][at][f] = Logical[at][f] + 1
                /\ Stored.data[at][g] = Logical[at][g]
                /\ Stored.data[at].id = Logical[at].id
                /\ Stored.data[at].category = Logical[at].category
                /\ Stored.data[at].element = Logical[at].element
                /\ \A p \in 1..NumRecords \ {at} : Stored.data[p] = Logical[p]

\* a love vote for record 1 has been written over a store that held an
\* earlier skip vote
C3_Witness ==
    \E w \in Workers :
        /\ pc[w] = "v_unlock" /\ call[w].id = 1 /\ call[w].field = "love"
        /\ Stored.data[2].love = base[2].love + 1
        /\ \E p \in 1..NumRecords : applied[p].skip = 1

\* C10: get(id) for a valid id returns a record whose id is the requested
\* id, in every state reached from an initialized store.
C10_GetReturnsRequestedId ==
    \A w \in Workers :
        pc[w] = "done" /\ call[w].op = "get" /\ 0 <= call[w].id
            /\ call[w].id < NumRecords =>
            /\ ret[w].k = "rec"
            /\ ret[w].v[1].id = call[w].id

\* get(1) has returned record 1 after a vote was written
C10_Witness ==
    \E w \in Workers :
        /\ pc[w] = "done" /\ call[w].op = "get" /\ call[w].id = 1
        /\ ret[w].k = "rec" /\ ret[w].v[1].id = 1
        /\ \E p \in 1..NumRecords : applied[p].love + applied[p].skip > 0

\* C4: the love and skip counters of a stored record never decrease: every
\* counter the file holds is at least the highest value the file has held
\* for that record and field.
C4_CountersNeverDecrease ==
    Stored.ok =>
        \A p \in 1..Len(Stored.data) : \A f \in Fields :
            Stored.data[p][f] >= peak[p][f]

\* C5: a listing never interleaves with a writer's partial write: once an
\* initStoryElements() has written the store and returned, every listing that
\* begins returns a complete collection, never an empty or truncated one.
C5_ReadNeverTorn ==
    \A w \in Workers :
        pc[w] = "done" /\ call[w].op = "list" /\ call[w].boot =>
            /\ ret[w].k = "list"
            /\ Len(ret[w].v) = NumRecords

\* C6: concurrent initStoryElements() calls on an absent store do not
\* corrupt it: when only such calls were made and all have returned, the
\* file parses as one complete collection with nothing after it.
C6_InitRaceLeavesWholeFile ==
    Quiet /\ calls.init > 0 /\ calls.read = 0 /\ calls.vote = 0 =>
        /\ Stored.ok
        /\ Len(Stored.data) = NumRecords

\* C7: every change of the file's contents, truncation included, is made by
\* a worker that holds the exclusive lock; while one worker holds it no other
\* worker holds a lock; and _vote_story holds it from its read to the end of
\* its truncate.
C7_WritesUnderExclusiveLock ==
    [][/\ \A w \in Workers :
              pc'[w] # pc[w] /\ file' # file => lock[w] = "EX"
       /\ \A w \in Workers : lock[w] = "EX" =>
              \A v \in Workers \ {w} : lock[v] = "UN"
       /\ \A w \in Workers :
              pc[w] \in {"v_load", "v_flush", "v_trunc", "v_unlock", "v_miss"}
                  => lock[w] = "EX"]_vars

\* C8: initStoryElements() is idempotent: a call made when the file exists
\* writes nothing, and after the call is made twice in a row the file holds
\* the collection the first call persisted, record for record.
C8_InitIdempotent ==
    /\ [][\A w \in Workers :
              call[w].op = "init" /\ call[w].found /\ pc'[w] # pc[w] =>
                  file' = file /\ exists' = exists]_vars
    /\ [](\A w \in Workers :
              pc[w] = "done" /\ call[w].op = "init" /\ calls.init >= 2 =>
                  /\ Stored.ok
                  /\ Stored.data = base
                  /\ file = Dump(base))

\* the second call in a row has returned
C8_Witness ==
    \E w \in Workers :
        /\ pc[w] = "done" /\ call[w].op = "init" /\ call[w].found
        /\ calls.init = 2 /\ calls.read = 0
        /\ Len(base) = NumRecords

\* C9: initStoryElements() on an absent store persists exactly 48 records,
\* 6 categories of 8 entries, with ids 0..47 in catalog order: the record at
\* position i has id i and the category and text of the i-th catalog entry.
C9_SeedsCatalogInOrder ==
    booted =>
        LET l == Load(file)
        IN  /\ l.ok
            /\ Len(l.data) = 48
            /\ \A i \in 0..47 :
                   /\ l.data[i + 1].id = i
                   /\ l.data[i + 1].category = (i \div SEED_ENTRIES) + 1
                   /\ l.data[i + 1].element =
                          CategoryEntries((i \div SEED_ENTRIES) + 1)
                                         [(i % SEED_ENTRIES) + 1]
            /\ {l.data[p].category : p \in 1..48} = 1..SEED_CATEGORIES

\* the first call has written the file and a listing has returned it
C9_Witness ==
    \E w \in Workers :
        /\ booted /\ pc[w] = "done" /\ call[w].op = "list"
        /\ Len(ret[w].v) = 48 /\ ret[w].v[48].id = 47
        /\ \E p \in 1..48 : ret[w].v[p].love = 1

\* C11: the set of records is fixed after creation: once initStoryElements()
\* has persisted the collection, whenever no operation is in progress the
\* file holds the same number of records, each with the id, category and
\* element text it was created with.
C11_RecordsFixed ==
    booted /\ Quiet =>
        /\ Stored.ok
        /\ Len(Stored.data) = Len(base)
        /\ \A p \in 1..Len(base) :
               /\ Stored.data[p].id = base[p].id
               /\ Stored.data[p].category = base[p].category
               /\ Stored.data[p].element = base[p].element

\* C12: get(id) with id < 0 or id >= count returns None and never raises,
\* whatever the state of the backing file (absent, unparsable or valid).
C12_GetOutOfRangeIsNone ==
    \A w \in Workers :
        pc[w] = "done" /\ call[w].op = "get" =>
            /\ ret[w].k # "raise"
            /\ call[w].id < 0 \/ call[w].id >= NumRecords => ret[w] = None
            /\ torn[w] => ret[w] = None

\* get(-1) has returned None from a file that json.load could not parse
C12_Witness ==
    \E w \in Workers :
        /\ pc[w] = "done" /\ call[w].op = "get" /\ call[w].id = -1
        /\ call[w].found /\ torn[w] /\ ret[w] = None

\* C13: on an initialized store, increment(id, field) with id out of range
\* writes nothing (no step of the call changes the file), returns None, and
\* has released the exclusive lock when it returns.
C13_VoteOutOfRange ==
    /\ [][\A w \in Workers :
              call[w].op = "vote" /\ ~InRange(call[w].id, base)
                  /\ pc'[w] # pc[w] => file' = file]_vars
    /\ [](\A w \in Workers :
              pc[w] = "done" /\ call[w].op = "vote"
                  /\ ~InRange(call[w].id, base) =>
                  /\ ret[w] = None
                  /\ lock[w] = "UN")

\* an increment of the id one past the last record has returned, having
\* taken the exclusive lock after another worker's increment was written
C13_Witness ==
    \E w \in Workers :
        /\ pc[w] = "done" /\ call[w].op = "vote" /\ call[w].id = NumRecords
        /\ ret[w] = None /\ lock[w] = "UN"
        /\ \E p \in 1..NumRecords : applied[p].love = 1
        /\ Stored.ok /\ Stored.data # base

\* C14: no store operation lets an exception out: list_all, get, count and
\* increment return a value or a sentinel in every state of the backing file.
C14_NoExceptionCrosses ==
    \A w \in Workers :
        pc[w] = "done" /\ call[w].op \in {"list", "get", "count", "vote"} =>
            ret[w].k # "raise"

\* C15: a backing file that json.load cannot parse reads as an empty
\* collection: list_all returns no record, count returns 0, get returns None
\* for every id, and no exception reaches the caller.
C15_UnparsableReadsEmpty ==
    \A w \in Workers :
        pc[w] = "done" /\ torn[w] =>
            /\ call[w].op = "list" => ret[w] = ListOf(<<>>)
            /\ call[w].op = "count" => ret[w] = IntOf(0)
            /\ call[w].op = "get" => ret[w] = None

\* countStoryElements() has returned 0 from a file that did not parse
C15_Witness ==
    \E w \in Workers :
        /\ pc[w] = "done" /\ torn[w] /\ call[w].op = "count"
        /\ call[w].found /\ ret[w] = IntOf(0)

\* C16: at the HTTP boundary a request for an id that no record has (GET
\* on the element, PUT love or skip on it) is answered with a not-found
\* status and a null body, not with a success status or a server error.
C16_MissingIdIs404 ==
    \A w \in Workers :
        resp[w].status # 0 /\ resp[w].of.name \in {"element", "love", "skip"}
            /\ ~InRange(resp[w].of.id, base) =>
            /\ resp[w].status = 404
            /\ resp[w].body.json = "null"

\* C17: PUT love / skip on a valid id answers with the updated record: the
\* named counter of the record in the response is the value this request's
\* own increment produced, other workers voting beside it or not.
C17_PutReturnsOwnIncrement ==
    \A w \in Workers :
        resp[w].status # 0 /\ resp[w].of.name \in Fields
            /\ InRange(resp[w].of.id, base) =>
            /\ resp[w].status = 200
            /\ resp[w].body.json = "object"
            /\ resp[w].of.voted.k = "int"
            /\ resp[w].body.v[1][resp[w].of.name] = resp[w].of.voted.n

\* C18: every lock a store operation takes is released on every exit path:
\* a worker whose operation has returned or raised, or that runs none, holds
\* no lock on the backing file.
C18_LocksReleased ==
    \A w \in Workers : pc[w] \in {"idle", "done"} => lock[w] = "UN"

\* an increment has left _vote_story by the exception of json.load, raised
\* under the exclusive lock
C18_Witness ==
    \E w \in Workers :
        /\ pc[w] = "done" /\ call[w].op = "vote" /\ torn[w]
        /\ ret[w] = Raised /\ lock[w] = "UN"

\* C19: the first list_all, get or increment on an absent store creates it
\* from the seed catalog: once an operation that found no file has returned,
\* the file exists and holds the whole collection, and a listing has returned
\* all of its records.
C19_CreatedOnFirstAccess ==
    \A w \in Workers :
        pc[w] = "done" /\ call[w].op \in {"list", "get", "vote"}
            /\ ~call[w].found =>
            /\ exists
            /\ ret[w].k # "raise"
            /\ call[w].op = "list" => Len(ret[w].v) = NumRecords

\* C20: a store operation blocks only where it acquires its lock, and then
\* holds none: no worker waits for a lock while holding one.  So the store
\* cannot deadlock, and under fair lock granting every list_all, get and
\* increment that has started eventually returns.
C20_NoDeadlock ==
    /\ [](\A w \in Workers :
              pc[w] \in {"r_lock", "v_lock", "w_lock"} => lock[w] = "UN")
    /\ \A w \in Workers :
           (pc[w] \notin {"idle", "done"}
                /\ call[w].op \in {"list", "get", "vote"})
               ~> (pc[w] = "done")

\* an increment waits for the exclusive lock while a reader holds the
\* shared one
C20_Witness ==
    \E w \in Workers : \E v \in Workers \ {w} :
        /\ pc[w] = "v_lock" /\ lock[w] = "UN"
        /\ lock[v] = "SH" /\ pc[v] = "r_load"

RECURSIVE SumField(_, _)
\* the sum of one counter over a collection
SumField(data, field) ==
    IF data = <<>> THEN 0
    ELSE Head(data)[field] + SumField(Tail(data), field)

\* no _vote_story has written the file
NoVoteWritten ==
    /\ applied = NoVotes
    /\ \A w \in Workers : pc[w] \notin {"v_trunc", "v_unlock"}

\* C21: round trip.  A collection written to the store reads back as the
\* same records in the same order with the same id, category, element, love
\* and skip: what initStoryElements() wrote is what the file parses to and
\* what a listing begun afterwards returns, until a vote writes; and what
\* _vote_story wrote is what the file parses to when it returns.
C21_RoundTrip ==
    /\ booted /\ NoVoteWritten => Stored = [ok |-> TRUE, data |-> base]
    /\ \A w \in Workers :
         /\ pc[w] = "v_unlock" => Stored = [ok |-> TRUE, data |-> elements[w]]
         /\ pc[w] = "done" /\ call[w].op = "list" /\ call[w].boot
              /\ NoVoteWritten => ret[w] = ListOf(base)

\* a listing has returned the written collection, one of whose counters has
\* two decimal digits, and a vote has written a collection with one more
C21_Witness ==
    \E w \in Workers, v \in Workers, p \in 1..NumRecords :
        /\ pc[w] = "done" /\ call[w].op = "list" /\ call[w].boot
        /\ ret[w] = ListOf(base) /\ base[p].love >= 10
        /\ pc[v] = "v_unlock" /\ call[v].id = p - 1 /\ call[v].field = "love"
        /\ Stored.data[p].love = base[p].love + 1

\* C22: vote accounting.  After initStoryElements() on an absent store the
\* love counters sum to 15 and the skip counters to 8, and from then on,
\* whenever no vote is inside its locked section, the love counters sum to
\* 15 plus the number of love increments that returned a value and the skip
\* counters to 8 plus the number of such skip increments.
C22_VoteAccounting ==
    booted /\ NoWriter =>
        /\ Stored.ok
        /\ SumField(Stored.data, "love")
               = PRIME_LOVE + SumField(applied, "love")
        /\ SumField(Stored.data, "skip")
               = PRIME_SKIP + SumField(applied, "skip")

\* a skip increment has returned a value and the skip counters sum to 9
C22_Witness ==
    /\ booted /\ NoWriter
    /\ \E w \in Workers :
           /\ pc[w] = "done" /\ call[w].op = "vote" /\ ret[w].k = "int"
           /\ call[w].field = "skip"
    /\ SumField(applied, "skip") = 1
    /\ SumField(Stored.data, "skip") = PRIME_SKIP + 1
    /\ SumField(Stored.data, "love") = PRIME_LOVE

\* what get_statistics reports of the committed rows
Reported == Tally(statsdb.statistics, NoStats)

\* w takes a step of the request op
StepOf(w, op) == statsw[w].op = op /\ statsw'[w] # statsw[w]

\* C23: recording a selection.  A record request with mode chill or action
\* changes the database in its commit only, which adds 1 to that mode's
\* count, leaves the other mode's count as it was and appends one history
\* row of the request's user and mode, and it answers 200; with any other
\* mode, or none, it answers 400 'Invalid mode' and changes no row.
C23_RecordCountsOne ==
    /\ [][\A w \in Workers : StepOf(w, "record") =>
            IF statsw[w].pc = "r_commit"
            THEN LET mode == statsw[w].mode
                     was == Reported
                     now == Tally(statsdb'.statistics, NoStats)
                 IN  /\ mode \in Modes
                     /\ now[mode] = was[mode] + 1
                     /\ \A m \in Modes \ {mode} : now[m] = was[m]
                     /\ statsdb'.history =
                            Append(statsdb.history,
                                   [user_id |-> statsw[w].user_id,
                                    mode |-> mode])
            ELSE /\ statsdb'.statistics = statsdb.statistics
                 /\ statsdb'.history = statsdb.history]_vars
    /\ [](\A w \in Workers :
            statsw[w].op = "record" /\ statsw[w].pc = "idle" =>
                IF statsw[w].mode \in Modes
                THEN statsw[w].resp.status = 200
                ELSE /\ statsw[w].resp.status = 400
                     /\ statsw[w].resp.error = "Invalid mode"
                     /\ statsw[w].at = 0)

\* one request has recorded action and reads chill = 0, action = 1 and one
\* history row, another has been answered 400 for the mode zen
C23_Witness ==
    \E w \in Workers, v \in Workers :
        /\ statsw[w].op = "record" /\ statsw[w].pc = "idle"
        /\ statsw[w].mode = "action" /\ statsw[w].resp.status = 200
        /\ statsw[w].resp.stats.action = 1 /\ statsw[w].resp.stats.chill = 0
        /\ Len(statsdb.history) = 1
        /\ statsw[v].op = "record" /\ statsw[v].pc = "idle"
        /\ statsw[v].mode = "zen" /\ statsw[v].resp.status = 400

\* C24: statistics consistency.  Whatever initializations, record and reset
\* requests have run and however they interleaved, the committed rows hold
\* at most one statistics row per mode, the total get_statistics reports of
\* them is chill + action, and chill + action is the number of history
\* rows; every 200 response reports total = chill + action.
C24_StatsConsistent ==
    /\ \A m \in Modes :
           Cardinality({i \in 1..Len(statsdb.statistics) :
                           statsdb.statistics[i].mode = m}) <= 1
    /\ Reported.total = Reported.chill + Reported.action
    /\ Reported.chill + Reported.action = Len(statsdb.history)
    /\ \A w \in Workers :
           statsw[w].resp.status = 200 =>
               statsw[w].resp.stats.total =
                   statsw[w].resp.stats.chill + statsw[w].resp.stats.action

Answered(w, op) ==
    usersw[w].op = op /\ usersw[w].pc = "idle" /\ usersw[w].resp.status # 0

C27_LoginMatchesCredentials ==
    \A w \in Workers :
        /\ Answered(w, "login")
        /\ usersw[w].data.GitHubID # "" /\ usersw[w].data.Password # ""
        => LET hit == {i \in find_by_github_id(usersdb.rows,
                                               usersw[w].data.GitHubID) :
                          check_password_hash(usersdb.rows[i].password,
                                              usersw[w].data.Password)}
           IN  IF hit # {}
               THEN /\ usersw[w].resp.status = 200
                    /\ usersw[w].resp.message = "Login successful"
                    /\ \E i \in hit :
                           usersw[w].resp.user = read(usersdb.rows[i])
               ELSE /\ usersw[w].resp.status = 401
                    /\ usersw[w].resp.message = "Invalid credentials"

\* C28: the in-memory UserModel.  After any sequence of create calls the
\* ids of the users are pairwise distinct, their GitHubIDs are pairwise
\* distinct and next_id is greater than every id; a create with a GitHubID
\* that a user has returns None and leaves users and next_id as they were,
\* any other create appends one user whose id is the previous next_id.
C28_UserModelIds ==
    /\ [](LET users == user_model.model.users
          IN  /\ \A i \in 1..Len(users) : \A j \in 1..Len(users) :
                     i # j => /\ users[i].id # users[j].id
                              /\ users[i].GitHubID # users[j].GitHubID
              /\ \A i \in 1..Len(users) :
                     user_model.model.next_id > users[i].id)
    /\ [][user_model'.last.op = "create" /\ user_model' # user_model =>
            LET users == user_model.model.users
                data == user_model'.last.data
            IN  IF \E i \in 1..Len(users) : users[i].GitHubID = data.GitHubID
                THEN /\ ~user_model'.last.created
                     /\ user_model'.model = user_model.model
                ELSE /\ user_model'.last.created
                     /\ user_model'.model.users =
                            Append(users, user_model'.last.user)
                     /\ user_model'.last.user.id = user_model.model.next_id
                     /\ user_model'.last.user.GitHubID = data.GitHubID
                     /\ user_model'.model.next_id > user_model.model.next_id
         ]_vars

\* four users: the last create appended the fourth with id 4, and one of
\* the calls before it added no user
C28_Witness ==
    /\ user_model.last.op = "create" /\ user_model.last.created
    /\ user_model.last.user.id = 4
    /\ Len(user_model.model.users) = 4
    /\ user_model.model.next_id = 5
    /\ user_model.calls.create + user_model.calls.post >= 3

\* C29: the most recent key bindings.  A read for a user, and for a game
\* mode when one is given, returns the binding saved last among those that
\* match (the one with the greatest id), also when saves share a created_at
\* second; it answers 404 exactly when no binding matches.
C29_ReturnsLastSaved ==
    keydb.last.op = "get" /\ keydb.last.userGithubId # "" =>
        LET among == Matching(keydb.rows,
                              [userGithubId |-> keydb.last.userGithubId,
                               gameMode |-> keydb.last.gameMode])
        IN  IF among = {} THEN keydb.last.status = 404
            ELSE /\ keydb.last.status = 200
                 /\ keydb.last.binding.id \in among
                 /\ \A j \in among : j <= keydb.last.binding.id

====
